---------------------------- MODULE Spec2Model ----------------------------
(***************************************************************************)
(* HTTP-Header-Security-Analyzer: the /analyze handler (main.go) and the   *)
(* analysis engine (internal/analyzer.go).  A call slot c is one request   *)
(* being served; AnalyzeURL is modelled statement by statement: URL        *)
(* normalisation and the GET, the network's answer, one iteration of the   *)
(* catalog loop per step, then scoring, grading and the handler's reply.   *)
(***************************************************************************)
EXTENDS Integers, Sequences, FiniteSets, TLC

VARIABLES
    securityHeaders,  \* the package-level catalog (analyzer.go:35)
    pc,               \* pc[c]: where request c is
    frame,            \* frame[c]: AnalyzeURL's locals (url, resp, result, ...)
    sent,             \* sent[c]: the URLs request c has sent a GET to, in order
    reply,            \* reply[c]: what the handler answered, or NoReply
    last,             \* body of the previous 200 reply (kept only by SpecMono)
    gradeArgs,        \* SpecGrade: the pair of scores handed to calculateGrade
    gradeRets         \* SpecGrade: the pair of grades it returned

vars == <<securityHeaders, pc, frame, sent, reply, last, gradeArgs, gradeRets>>

---------------------------------------------------------------------------
(* Bounds *)

\* number of requests served concurrently under Spec
NumCalls == 2
\* longest list of raw header lines in a response under SpecSeq
MaxLines == 2

Calls == 1..NumCalls

---------------------------------------------------------------------------
(* The catalog, analyzer.go:35-83 *)

Catalog ==
    << [Name |-> "Strict-Transport-Security",
        Description |-> "Forces HTTPS connections to protect against man-in-the-middle attacks.",
        Weight |-> 20, Aliases |-> << >>],
       [Name |-> "X-Content-Type-Options",
        Description |-> "Prevents MIME-sniffing attacks by enforcing declared content types.",
        Weight |-> 15, Aliases |-> << >>],
       [Name |-> "X-Frame-Options",
        Description |-> "Protects against clickjacking by controlling iframe embedding.",
        Weight |-> 15, Aliases |-> << >>],
       [Name |-> "Content-Security-Policy",
        Description |-> "Helps prevent XSS attacks by defining allowed content sources.",
        Weight |-> 20, Aliases |-> <<"Content-Security-Policy-Report-Only">>],
       [Name |-> "Referrer-Policy",
        Description |-> "Controls how much referrer information is shared with requests.",
        Weight |-> 15, Aliases |-> << >>],
       [Name |-> "Permissions-Policy",
        Description |-> "Controls which browser features and APIs can be used.",
        Weight |-> 10, Aliases |-> <<"Feature-Policy">>],
       [Name |-> "Cross-Origin-Opener-Policy",
        Description |-> "Prevents cross-origin attacks by isolating browsing context.",
        Weight |-> 8, Aliases |-> << >>],
       [Name |-> "Cross-Origin-Resource-Policy",
        Description |-> "Protects resources from being loaded by other origins.",
        Weight |-> 7, Aliases |-> << >>] >>

CatalogNames == {Catalog[i].Name : i \in DOMAIN Catalog}

Range(s) == {s[i] : i \in DOMAIN s}

---------------------------------------------------------------------------
(* strings.HasPrefix and the URL normalisation, analyzer.go:104-106 *)

HasPrefix(s, prefix) ==
    Len(s) >= Len(prefix) /\ SubSeq(s, 1, Len(prefix)) = prefix

\* variant: the wrong scheme is put in front
NormalizeURLHttp(url) ==
    IF ~HasPrefix(url, "http://") /\ ~HasPrefix(url, "https://")
    THEN "http://" \o url
    ELSE url

NormalizeURL(url) ==
    IF ~HasPrefix(url, "http://") /\ ~HasPrefix(url, "https://")
    THEN "https://" \o url
    ELSE url

---------------------------------------------------------------------------
(* net/http's header store as resp.Header.Get uses it, analyzer.go:89,95:  *)
(* keys are canonicalised when the response is read and when Get looks one *)
(* up; Get returns the first value stored under the key, "" if none.       *)

LowerLetters == "abcdefghijklmnopqrstuvwxyz"
UpperLetters == "ABCDEFGHIJKLMNOPQRSTUVWXYZ"

CharAt(s, i) == SubSeq(s, i, i)

ToUpper(ch) ==
    IF \E i \in 1..Len(LowerLetters) : CharAt(LowerLetters, i) = ch
    THEN LET i == CHOOSE j \in 1..Len(LowerLetters) : CharAt(LowerLetters, j) = ch
         IN  CharAt(UpperLetters, i)
    ELSE ch

ToLower(ch) ==
    IF \E i \in 1..Len(UpperLetters) : CharAt(UpperLetters, i) = ch
    THEN LET i == CHOOSE j \in 1..Len(UpperLetters) : CharAt(UpperLetters, j) = ch
         IN  CharAt(LowerLetters, i)
    ELSE ch

RECURSIVE CanonFrom(_, _, _)
\* first letter and every letter after a hyphen upper case, the rest lower
CanonFrom(s, i, upper) ==
    IF i > Len(s) THEN ""
    ELSE LET ch == CharAt(s, i)
         IN  (IF upper THEN ToUpper(ch) ELSE ToLower(ch))
             \o CanonFrom(s, i + 1, ch = "-")

\* the header names that occur on the wire or in the catalog
WireNames ==
    { "X-Frame-Options", "x-frame-options",
      "content-security-policy-report-only", "FEATURE-POLICY", "Server" }

KnownNames ==
    WireNames \cup CatalogNames
    \cup UNION {Range(Catalog[i].Aliases) : i \in DOMAIN Catalog}

CanonTable == [n \in KnownNames |-> CanonFrom(n, 1, TRUE)] @@ << >>

CanonicalMIMEHeaderKey(s) ==
    IF s \in KnownNames THEN CanonTable[s] ELSE CanonFrom(s, 1, TRUE)

\* the header map net/http builds from the raw lines <<name, value>>
ReadMIMEHeader(lines) ==
    LET keys == {CanonicalMIMEHeaderKey(lines[i][1]) : i \in DOMAIN lines}
        ValuesOf(k) ==
            LET Under(l) == CanonicalMIMEHeaderKey(l[1]) = k
                sel == SelectSeq(lines, Under)
            IN  [j \in DOMAIN sel |-> sel[j][2]]
    IN  [k \in keys |-> ValuesOf(k)]

Get(h, key) ==
    LET k == CanonicalMIMEHeaderKey(key)
    IN  IF k \in DOMAIN h /\ Len(h[k]) > 0 THEN h[k][1] ELSE ""

\* analyzer.go:87-101
isHeaderPresent(h, header) ==
    \/ Get(h, header.Name) # ""
    \/ \E a \in DOMAIN header.Aliases : Get(h, header.Aliases[a]) # ""


---------------------------------------------------------------------------
(* Scoring helpers, analyzer.go:152-192 and 213-258 *)

criticalHeaders == <<"Strict-Transport-Security", "X-Content-Type-Options", "X-Frame-Options">>
importantHeaders == <<"Content-Security-Policy", "Referrer-Policy">>

\* analyzer.go:214-227
countCriticalHeaders(summary) ==
    Cardinality({i \in DOMAIN summary :
        \E j \in DOMAIN criticalHeaders :
            summary[i].Name = criticalHeaders[j] /\ summary[i].Present})

\* analyzer.go:230-243
countImportantHeaders(summary) ==
    Cardinality({i \in DOMAIN summary :
        \E j \in DOMAIN importantHeaders :
            summary[i].Name = importantHeaders[j] /\ summary[i].Present})

\* variant: rounds to the nearest point instead of truncating
HeaderScoreRounded(achievedWeight, totalWeight) ==
    IF totalWeight > 0
    THEN (achievedWeight * 70 + totalWeight \div 2) \div totalWeight
    ELSE 0

\* analyzer.go:153-156
HeaderScore(achievedWeight, totalWeight) ==
    IF totalWeight > 0 THEN (achievedWeight * 70) \div totalWeight ELSE 0

\* analyzer.go:159-162
HttpsScore(url) == IF HasPrefix(url, "https://") THEN 30 ELSE 0

\* analyzer.go:172-178
CriticalBonus(criticalCount) ==
    IF criticalCount > 0
    THEN LET criticalBonus == (criticalCount * 10) \div 3
         IN  IF criticalBonus > 10 THEN 10 ELSE criticalBonus
    ELSE 0

\* analyzer.go:181-187
ImportantBonus(importantCount) ==
    IF importantCount > 0
    THEN LET importantBonus == (importantCount * 5) \div 2
         IN  IF importantBonus > 5 THEN 5 ELSE importantBonus
    ELSE 0

\* variant: the cap is missing
CapScoreMissing(score) == score

\* analyzer.go:190-192
CapScore(score) == IF score > 100 THEN 100 ELSE score

\* variant: strict comparisons, a score on a threshold falls one grade
calculateGradeStrict(score) ==
    IF score > 80 THEN "A"
    ELSE IF score > 65 THEN "B"
    ELSE IF score > 45 THEN "C"
    ELSE IF score > 25 THEN "D"
    ELSE "F"

\* analyzer.go:245-258
calculateGrade(score) ==
    IF score >= 80 THEN "A"
    ELSE IF score >= 65 THEN "B"
    ELSE IF score >= 45 THEN "C"
    ELSE IF score >= 25 THEN "D"
    ELSE "F"

---------------------------------------------------------------------------
(* Values *)

NoResp == [StatusCode |-> 0, Header |-> << >>]
NoResult == [nil |-> TRUE]
NoReply == [status |-> 0]
NoLast == [none |-> TRUE]

\* req is the handler's parsed request, wire the raw header lines of the
\* response as they came in; the rest are AnalyzeURL's locals
NoFrame ==
    [req |-> [ok |-> FALSE, URL |-> ""], url |-> "", wire |-> << >>,
     resp |-> NoResp, result |-> NoResult, err |-> "",
     totalWeight |-> 0, achievedWeight |-> 0, idx |-> 0]

\* variant: the default policy, redirects are followed
CheckRedirectFollow == "nil"

\* the http.Client of analyzer.go:108-116: CheckRedirect's return value
CheckRedirect == "ErrUseLastResponse"

IsRedirect(status) == status \in {301, 302, 303, 307, 308}

---------------------------------------------------------------------------
(* Actions *)

\* main.go:21-35 and analyzer.go:103-118: parse the body, reject an empty
\* URL, else enter AnalyzeURL: normalise the URL and send the GET.
analyzeHandler(c, body) ==
    /\ pc[c] \in {"idle", "done"}
    /\ IF ~body.ok
       THEN /\ reply' = [reply EXCEPT ![c] = [status |-> 400, error |-> "Invalid request body"]]
            /\ pc' = [pc EXCEPT ![c] = "done"]
            /\ frame' = [frame EXCEPT ![c] = NoFrame]
            /\ sent' = [sent EXCEPT ![c] = << >>]
       ELSE IF body.URL = ""
       THEN /\ reply' = [reply EXCEPT ![c] = [status |-> 400, error |-> "URL is required"]]
            /\ pc' = [pc EXCEPT ![c] = "done"]
            /\ frame' = [frame EXCEPT ![c] = [NoFrame EXCEPT !.req = body]]
            /\ sent' = [sent EXCEPT ![c] = << >>]
       ELSE LET url == NormalizeURL(body.URL)
            IN  /\ frame' = [frame EXCEPT ![c] = [NoFrame EXCEPT !.req = body, !.url = url]]
                /\ sent' = [sent EXCEPT ![c] = <<url>>]
                /\ pc' = [pc EXCEPT ![c] = "get"]
                /\ reply' = [reply EXCEPT ![c] = NoReply]
    /\ UNCHANGED <<securityHeaders, gradeArgs, gradeRets>>

\* analyzer.go:113-128: the answer to the GET arrives.  A 3xx answer is
\* handed to CheckRedirect; ErrUseLastResponse makes client.Get return it
\* as it is, anything else would send a GET to its Location.
GetResponse(c, r) ==
    /\ pc[c] = "get"
    /\ IF IsRedirect(r.status) /\ CheckRedirect # "ErrUseLastResponse"
       THEN /\ sent' = [sent EXCEPT ![c] = Append(@, r.location)]
            /\ UNCHANGED <<pc, frame>>
       ELSE /\ frame' = [frame EXCEPT ![c] =
                   [@ EXCEPT !.wire = r.lines,
                             !.resp = [StatusCode |-> r.status,
                                       Header |-> ReadMIMEHeader(r.lines)],
                             !.result = [Headers |-> << >>, Score |-> 0, Grade |-> "",
                                         Summary |-> << >>, URL |-> frame[c].url],
                             !.totalWeight = 0,
                             !.achievedWeight = 0,
                             !.idx = 1]]
            /\ pc' = [pc EXCEPT ![c] = "loop"]
            /\ UNCHANGED sent
    /\ UNCHANGED <<securityHeaders, reply, last, gradeArgs, gradeRets>>

\* variant: a zero-valued result is returned beside the error
GetErrorZeroResult(c, e) ==
    /\ pc[c] = "get"
    /\ frame' = [frame EXCEPT ![c] =
            [@ EXCEPT !.err = e,
                      !.result = [Headers |-> << >>, Score |-> 0, Grade |-> "",
                                  Summary |-> << >>, URL |-> ""]]]
    /\ reply' = [reply EXCEPT ![c] =
                    [status |-> 500, error |-> "Failed to analyze URL: " \o e]]
    /\ pc' = [pc EXCEPT ![c] = "done"]
    /\ UNCHANGED <<securityHeaders, sent, last, gradeArgs, gradeRets>>

\* analyzer.go:118-121 and main.go:36-40: the GET failed (DNS, connect, TLS
\* handshake, the 10 s timeout); AnalyzeURL returns (nil, err), the handler
\* answers 500.
GetError(c, e) ==
    /\ pc[c] = "get"
    /\ frame' = [frame EXCEPT ![c] = [@ EXCEPT !.err = e]]
    /\ reply' = [reply EXCEPT ![c] =
                    [status |-> 500, error |-> "Failed to analyze URL: " \o e]]
    /\ pc' = [pc EXCEPT ![c] = "done"]
    /\ UNCHANGED <<securityHeaders, sent, last, gradeArgs, gradeRets>>

\* variant: "=" for "+=", the last present header's weight replaces the sum
AccumulateAssign(achievedWeight, present, weight) ==
    IF present THEN weight ELSE achievedWeight

\* analyzer.go:147-149
Accumulate(achievedWeight, present, weight) ==
    IF present THEN achievedWeight + weight ELSE achievedWeight

\* variant: achievedWeight is one package-level accumulator that every
\* analysis in its loop adds to
LoopStepSharedWeight(c) ==
    /\ pc[c] = "loop"
    /\ frame[c].idx <= Len(securityHeaders)
    /\ LET header == securityHeaders[frame[c].idx]
           present == isHeaderPresent(frame[c].resp.Header, header)
           summaryItem == [Name |-> header.Name, Present |-> present,
                           Description |-> header.Description,
                           Weight |-> header.Weight, Aliases |-> header.Aliases]
           add == IF present THEN header.Weight ELSE 0
       IN  frame' = [d \in DOMAIN frame |->
                IF d = c
                THEN [frame[c] EXCEPT
                        !.result = [@ EXCEPT
                            !.Headers = (header.Name :> present) @@ @,
                            !.Summary = Append(@, summaryItem)],
                        !.totalWeight = @ + header.Weight,
                        !.achievedWeight = @ + add,
                        !.idx = @ + 1]
                ELSE [frame[d] EXCEPT !.achievedWeight =
                        IF pc[d] = "loop" THEN @ + add ELSE @]]
    /\ UNCHANGED <<securityHeaders, pc, sent, reply, last, gradeArgs, gradeRets>>

\* analyzer.go:133-150: one iteration of the loop over the catalog
LoopStep(c) ==
    /\ pc[c] = "loop"
    /\ frame[c].idx <= Len(securityHeaders)
    /\ LET header == securityHeaders[frame[c].idx]
           present == isHeaderPresent(frame[c].resp.Header, header)
           summaryItem == [Name |-> header.Name, Present |-> present,
                           Description |-> header.Description,
                           Weight |-> header.Weight, Aliases |-> header.Aliases]
       IN  frame' = [frame EXCEPT ![c] =
                [@ EXCEPT
                    !.result = [@ EXCEPT
                        !.Headers = (header.Name :> present) @@ @,
                        !.Summary = Append(@, summaryItem)],
                    !.totalWeight = @ + header.Weight,
                    !.achievedWeight = Accumulate(@, present, header.Weight),
                    !.idx = @ + 1]]
    /\ UNCHANGED <<securityHeaders, pc, sent, reply, last, gradeArgs, gradeRets>>

\* analyzer.go:152-196 and main.go:42: score, bonuses, cap, grade; AnalyzeURL
\* returns (result, nil) and the handler answers with the result.
Score(c) ==
    /\ pc[c] = "loop"
    /\ frame[c].idx > Len(securityHeaders)
    /\ LET f == frame[c]
           headerScore == HeaderScore(f.achievedWeight, f.totalWeight)
           httpsScore == HttpsScore(f.url)
           criticalCount == countCriticalHeaders(f.result.Summary)
           importantCount == countImportantHeaders(f.result.Summary)
           score == CapScore(headerScore + httpsScore
                             + CriticalBonus(criticalCount)
                             + ImportantBonus(importantCount))
           result == [f.result EXCEPT !.Score = score,
                                      !.Grade = calculateGrade(score)]
       IN  /\ frame' = [frame EXCEPT ![c] = [@ EXCEPT !.result = result]]
           /\ reply' = [reply EXCEPT ![c] = [status |-> 200, body |-> result]]
    /\ pc' = [pc EXCEPT ![c] = "done"]
    /\ UNCHANGED <<securityHeaders, sent, last, gradeArgs, gradeRets>>

---------------------------------------------------------------------------
(* Inputs: request bodies, the network's answers *)

BadBody == [ok |-> FALSE, URL |-> ""]
Body(url) == [ok |-> TRUE, URL |-> url]

Resp(status, lines) ==
    [status |-> status, lines |-> lines, location |-> "https://www.example.com/"]

\* the members of a set of catalog indices, ascending
RECURSIVE Ascending(_)
Ascending(S) ==
    IF S = {} THEN << >>
    ELSE LET m == CHOOSE x \in S : \A y \in S : x <= y
         IN  <<m>> \o Ascending(S \ {m})

\* a response that sends exactly the catalog headers with indices in P
SubsetLines(P) ==
    LET idx == Ascending(P)
    IN  [j \in DOMAIN idx |-> <<Catalog[idx[j]].Name, "1">>]

AllSubsetLines == {SubsetLines(P) : P \in SUBSET DOMAIN Catalog}

WireLines == WireNames \X {"", "1"}

LineSeqs(n) == UNION {[1..k -> WireLines] : k \in 0..n}

Errors ==
    { "dial tcp: lookup example.com: no such host",
      "remote error: tls: handshake failure",
      "context deadline exceeded (Client.Timeout exceeded while awaiting headers)" }

\* Spec: a few requests served concurrently
Bodies == {BadBody, Body(""), Body("example.com"), Body("http://example.com")}

Responses ==
    { Resp(200, << >>),
      Resp(200, SubsetLines(DOMAIN Catalog)),
      Resp(200, << <<"content-security-policy-report-only", "1">>,
                   <<"X-Frame-Options", "">> >>),
      Resp(301, SubsetLines({1, 5})) }

\* SpecSeq: one request at a time, every combination of catalog headers and
\* every short list of raw lines
SeqBodies ==
    {BadBody} \cup
    {Body(u) : u \in {"", "example.com", "http://example.com", "https://example.com",
                      "HTTP://example.com", "https:/example.com", "httpx.example.com"}}

SeqResponses ==
    {Resp(200, l) : l \in AllSubsetLines \cup LineSeqs(MaxLines)}
    \cup {Resp(301, l) : l \in LineSeqs(1)}

\* SpecMono: successive analyses of a site that only gains headers
MonoBodies == {Body("example.com"), Body("http://example.com"), Body("https://example.com")}

PresentNames(body) == {n \in DOMAIN body.Headers : body.Headers[n]}

MonoResponses == {Resp(200, l) : l \in AllSubsetLines}

\* the site still sends every header the previous analysis found
Grown(r) ==
    IF last = NoLast THEN TRUE
    ELSE PresentNames(last) \subseteq {r.lines[j][1] : j \in DOMAIN r.lines}

---------------------------------------------------------------------------
(* Specifications *)

Init ==
    /\ securityHeaders = Catalog
    /\ pc = [c \in Calls |-> "idle"]
    /\ frame = [c \in Calls |-> NoFrame]
    /\ sent = [c \in Calls |-> << >>]
    /\ reply = [c \in Calls |-> NoReply]
    /\ last = NoLast
    /\ gradeArgs = << >>
    /\ gradeRets = << >>

Next ==
    \E c \in Calls :
        \/ \E body \in Bodies : analyzeHandler(c, body) /\ UNCHANGED last
        \/ \E r \in Responses : GetResponse(c, r)
        \/ \E e \in Errors : GetError(c, e)
        \/ LoopStep(c)
        \/ Score(c)

Spec == Init /\ [][Next]_vars

InitSeq ==
    /\ securityHeaders = Catalog
    /\ pc = [c \in {1} |-> "idle"]
    /\ frame = [c \in {1} |-> NoFrame]
    /\ sent = [c \in {1} |-> << >>]
    /\ reply = [c \in {1} |-> NoReply]
    /\ last = NoLast
    /\ gradeArgs = << >>
    /\ gradeRets = << >>

NextSeq ==
    \/ \E body \in SeqBodies : analyzeHandler(1, body) /\ UNCHANGED last
    \/ \E r \in SeqResponses : GetResponse(1, r)
    \/ \E e \in Errors : GetError(1, e)
    \/ LoopStep(1)
    \/ Score(1)

SpecSeq == InitSeq /\ [][NextSeq]_vars

\* the body of the reply that a new request on the slot is about to replace
Remember(c) ==
    last' = IF reply[c].status = 200 THEN reply[c].body ELSE last

NextMono ==
    \/ \E body \in MonoBodies : analyzeHandler(1, body) /\ Remember(1)
    \/ pc[1] = "get" /\ \E r \in MonoResponses : Grown(r) /\ GetResponse(1, r)
    \/ \E e \in Errors : GetError(1, e)
    \/ LoopStep(1)
    \/ Score(1)

SpecMono == InitSeq /\ [][NextMono]_vars

\* SpecGrade: calculateGrade on its own, over every pair of scores the cap
\* allows, beside the sequential program
MaxScore == 100

ApplyGrade ==
    /\ gradeArgs # << >>
    /\ gradeRets = << >>
    /\ gradeRets' = <<calculateGrade(gradeArgs[1]), calculateGrade(gradeArgs[2])>>
    /\ UNCHANGED <<securityHeaders, pc, frame, sent, reply, last, gradeArgs>>

InitGrade ==
    /\ securityHeaders = Catalog
    /\ pc = [c \in {1} |-> "idle"]
    /\ frame = [c \in {1} |-> NoFrame]
    /\ sent = [c \in {1} |-> << >>]
    /\ reply = [c \in {1} |-> NoReply]
    /\ last = NoLast
    /\ gradeArgs \in {<< >>} \cup ((0..MaxScore) \X (0..MaxScore))
    /\ gradeRets = << >>

NextGrade ==
    \/ ApplyGrade
    \/ gradeArgs = << >> /\ \E body \in SeqBodies : analyzeHandler(1, body) /\ UNCHANGED last
    \/ gradeArgs = << >> /\ \E r \in SeqResponses : GetResponse(1, r)
    \/ gradeArgs = << >> /\ \E e \in Errors : GetError(1, e)
    \/ gradeArgs = << >> /\ LoopStep(1)
    \/ gradeArgs = << >> /\ Score(1)

SpecGrade == InitGrade /\ [][NextGrade]_vars

---------------------------------------------------------------------------
(* Vocabulary of the properties *)

Slots == DOMAIN pc

Answered(c) == pc[c] = "done" /\ reply[c].status = 200

\* the weights as the scoring formula states them
StatedWeight(name) ==
    CASE name = "Strict-Transport-Security" -> 20
      [] name = "X-Content-Type-Options" -> 15
      [] name = "X-Frame-Options" -> 15
      [] name = "Content-Security-Policy" -> 20
      [] name = "Referrer-Policy" -> 15
      [] name = "Permissions-Policy" -> 10
      [] name = "Cross-Origin-Opener-Policy" -> 8
      [] name = "Cross-Origin-Resource-Policy" -> 7

RECURSIVE SumWeights(_)
SumWeights(P) ==
    IF P = {} THEN 0
    ELSE LET n == CHOOSE x \in P : TRUE
         IN  StatedWeight(n) + SumWeights(P \ {n})

Min(a, b) == IF a <= b THEN a ELSE b

StatedCritical == {"Strict-Transport-Security", "X-Content-Type-Options", "X-Frame-Options"}
StatedImportant == {"Content-Security-Policy", "Referrer-Policy"}

StatedScore(P, url) ==
    LET httpsScore == IF Len(url) >= 8 /\ SubSeq(url, 1, 8) = "https://" THEN 30 ELSE 0
        criticalBonus == <<0, 3, 6, 10>>[Cardinality(P \cap StatedCritical) + 1]
        importantBonus == <<0, 2, 5>>[Cardinality(P \cap StatedImportant) + 1]
    IN  Min(100, (SumWeights(P) * 70) \div 110 + httpsScore + criticalBonus + importantBonus)

StatedGrade(s) ==
    CASE s >= 80 -> "A"
      [] s >= 65 /\ s <= 79 -> "B"
      [] s >= 45 /\ s <= 64 -> "C"
      [] s >= 25 /\ s <= 44 -> "D"
      [] s <= 24 -> "F"

\* F = 0 ... A = 4
GradeRank(g) == CHOOSE k \in 0..4 : <<"F", "D", "C", "B", "A">>[k + 1] = g

RECURSIVE LowerString(_)
LowerString(s) ==
    IF s = "" THEN "" ELSE ToLower(CharAt(s, 1)) \o LowerString(SubSeq(s, 2, Len(s)))

EqualFold(a, b) == LowerString(a) = LowerString(b)

\* some raw line carries the name, in any letter case, with a non-empty value
SentNonEmpty(lines, name) ==
    \E j \in DOMAIN lines : EqualFold(lines[j][1], name) /\ lines[j][2] # ""

StatedPresent(lines, header) ==
    \/ SentNonEmpty(lines, header.Name)
    \/ \E a \in DOMAIN header.Aliases : SentNonEmpty(lines, header.Aliases[a])

---------------------------------------------------------------------------
(* C1 *)

\* C1: every score returned by a successful analysis is an integer in 0..100,
\* whatever headers are present and whichever scheme the URL has.
C1_ScoreInRange ==
    \A c \in Slots : Answered(c) => reply[c].body.Score \in 0..100

\* all eight headers over https: the raw total 115 is capped
C1_Witness ==
    \E c \in Slots :
        /\ Answered(c)
        /\ PresentNames(reply[c].body) = CatalogNames
        /\ HasPrefix(reply[c].body.URL, "https://")
        /\ reply[c].body.Score = 100

(* C2 *)

\* C2: the returned score is min(100, floor(achievedWeight*70/110) + httpsScore
\* + criticalBonus + importantBonus) for the set of headers marked present and
\* the normalized URL; the three Critical headers alone over https give 71 / B,
\* Referrer-Policy alone over https gives 41 / D.
C2_ScoreFormula ==
    \A c \in Slots : Answered(c) =>
        LET body == reply[c].body
            P == PresentNames(body)
        IN  /\ body.Score = StatedScore(P, body.URL)
            /\ (P = StatedCritical /\ HasPrefix(body.URL, "https://"))
                  => (body.Score = 71 /\ body.Grade = "B")
            /\ (P = {"Referrer-Policy"} /\ HasPrefix(body.URL, "https://"))
                  => (body.Score = 41 /\ body.Grade = "D")

C2_Witness ==
    \E c \in Slots :
        /\ Answered(c)
        /\ PresentNames(reply[c].body) = StatedCritical
        /\ frame[c].req.URL = "example.com"
        /\ reply[c].body.URL = "https://example.com"
        /\ reply[c].body.Score = 71

(* C3 *)

\* C3: calculateGrade maps every score in 0..100 to exactly the grade of the
\* five stated ranges, a higher score never gets a worse grade, and the grade
\* of every returned result is that of the result's own final score.
C3_GradeTable ==
    /\ gradeRets # << >> =>
          /\ \A k \in 1..2 : gradeRets[k] = StatedGrade(gradeArgs[k])
          /\ gradeArgs[1] <= gradeArgs[2]
                => GradeRank(gradeRets[1]) <= GradeRank(gradeRets[2])
    /\ \A c \in Slots : Answered(c) =>
          reply[c].body.Grade = StatedGrade(reply[c].body.Score)

\* the boundary between C and B
C3_Witness ==
    /\ gradeArgs = <<64, 65>>
    /\ gradeRets = <<"C", "B">>

(* C4 *)

\* C4: a catalog header is marked present exactly when some response line
\* carries its canonical name or one of its aliases, in any letter case, with
\* a non-empty value.
C4_PresenceIffAnyNonEmpty ==
    \A c \in Slots : Answered(c) =>
        \A i \in DOMAIN Catalog :
            reply[c].body.Headers[Catalog[i].Name]
                <=> StatedPresent(frame[c].wire, Catalog[i])

(* C5 *)

\* C5: an input that begins with the literal "http://" or "https://" is
\* fetched as it is, any other input with "https://" put in front; the GET
\* goes to that string, the result's url field echoes it, and normalizing it
\* again changes nothing.
C5_Normalization ==
    \A c \in Slots : sent[c] # << >> =>
        LET in == frame[c].req.URL
            literal == \/ (Len(in) >= 7 /\ SubSeq(in, 1, 7) = "http://")
                       \/ (Len(in) >= 8 /\ SubSeq(in, 1, 8) = "https://")
            expected == IF literal THEN in ELSE "https://" \o in
        IN  /\ frame[c].url = expected
            /\ sent[c][1] = expected
            /\ Answered(c) => reply[c].body.URL = expected
            /\ NormalizeURL(frame[c].url) = frame[c].url

\* the prefix test is case-sensitive: an upper-case scheme is not recognised
C5_Witness ==
    \E c \in Slots :
        /\ Answered(c)
        /\ frame[c].req.URL = "HTTP://example.com"
        /\ sent[c] = <<"https://HTTP://example.com">>
        /\ reply[c].body.URL = "https://HTTP://example.com"

(* C6 *)

FetchFailed(c) ==
    /\ frame[c].err # ""
    /\ frame[c].result = NoResult
    /\ reply[c] = [status |-> 500, error |-> "Failed to analyze URL: " \o frame[c].err]

FullResult(c) ==
    LET result == frame[c].result
    IN  /\ frame[c].err = ""
        /\ result # NoResult
        /\ DOMAIN result.Headers = CatalogNames
        /\ Len(result.Summary) = Len(Catalog)
        /\ \A i \in DOMAIN Catalog :
              /\ result.Summary[i].Name = Catalog[i].Name
              /\ result.Summary[i].Description = Catalog[i].Description
              /\ result.Summary[i].Weight = Catalog[i].Weight
              /\ result.Summary[i].Aliases = Catalog[i].Aliases
              /\ result.Summary[i].Present = result.Headers[result.Summary[i].Name]
        /\ result.Score \in 0..100
        /\ result.Grade \in {"A", "B", "C", "D", "F"}
        /\ result.URL = frame[c].url
        /\ result.URL # ""
        /\ reply[c] = [status |-> 200, body |-> result]

\* C6: once AnalyzeURL has returned, either the fetch failed and there is an
\* error, no result, and a 500 reply carrying the error text, or there is no
\* error and a complete result (8 header keys, 8 summary entries in catalog
\* order agreeing with the map, score, grade, url), which is the reply; never
\* both, never a partly filled result; and nothing is replied before that.
C6_ErrorOrFullResult ==
    \A c \in Slots :
        /\ (pc[c] = "done" /\ sent[c] # << >>)
              => (FetchFailed(c) /\ ~FullResult(c)) \/ (FullResult(c) /\ ~FetchFailed(c))
        /\ pc[c] \in {"get", "loop"} => (reply[c] = NoReply /\ frame[c].err = "")

C6_Witness ==
    \E c \in Slots :
        /\ pc[c] = "done"
        /\ sent[c] = <<"https://example.com">>
        /\ FetchFailed(c)
        /\ reply[c].status = 500

(* C7 *)

\* the result of analysing headers h fetched from url with nothing else running
RECURSIVE AloneLoop(_, _, _)
AloneLoop(h, i, acc) ==
    IF i > Len(Catalog) THEN acc
    ELSE LET header == Catalog[i]
             present == isHeaderPresent(h, header)
         IN  AloneLoop(h, i + 1,
                [Headers |-> (header.Name :> present) @@ acc.Headers,
                 Summary |-> Append(acc.Summary,
                                [Name |-> header.Name, Present |-> present,
                                 Description |-> header.Description,
                                 Weight |-> header.Weight, Aliases |-> header.Aliases]),
                 totalWeight |-> acc.totalWeight + header.Weight,
                 achievedWeight |-> Accumulate(acc.achievedWeight, present, header.Weight)])

Alone(url, h) ==
    LET acc == AloneLoop(h, 1, [Headers |-> << >>, Summary |-> << >>,
                                totalWeight |-> 0, achievedWeight |-> 0])
        score == CapScore(HeaderScore(acc.achievedWeight, acc.totalWeight)
                          + HttpsScore(url)
                          + CriticalBonus(countCriticalHeaders(acc.Summary))
                          + ImportantBonus(countImportantHeaders(acc.Summary)))
    IN  [Headers |-> acc.Headers, Score |-> score, Grade |-> calculateGrade(score),
         Summary |-> acc.Summary, URL |-> url]

\* C7: whatever else runs at the same time, the result a request is answered
\* with is the one its own URL and response headers give when analysed alone,
\* two requests with the same URL and headers get the same result, and the
\* catalog is what it was at process start.
C7_Independent ==
    /\ securityHeaders = Catalog
    /\ \A c \in Slots : Answered(c) =>
          reply[c].body = Alone(frame[c].url, frame[c].resp.Header)
    /\ \A c, d \in Slots :
          (/\ Answered(c) /\ Answered(d)
           /\ frame[c].url = frame[d].url
           /\ frame[c].resp.Header = frame[d].resp.Header)
              => reply[c].body = reply[d].body

\* two requests, different URLs and different responses, both answered
C7_Witness ==
    \E c, d \in Slots :
        /\ c # d
        /\ Answered(c) /\ Answered(d)
        /\ frame[c].url # frame[d].url
        /\ PresentNames(reply[c].body) = CatalogNames
        /\ PresentNames(reply[d].body) = {"Content-Security-Policy"}

(* C9 *)

\* C9: an analysis sends at most one GET; a 3xx answer is not followed, its own
\* headers are scored and a result returned; a failed GET is not retried, the
\* analysis ends with the error.
C9_SingleRequest ==
    \A c \in Slots :
        /\ Len(sent[c]) <= 1
        /\ (pc[c] \in {"loop", "done"} /\ IsRedirect(frame[c].resp.StatusCode))
              => /\ sent[c] = <<frame[c].url>>
                 /\ frame[c].resp.Header = ReadMIMEHeader(frame[c].wire)
                 /\ pc[c] = "done" =>
                       /\ reply[c].status = 200
                       /\ \A i \in DOMAIN Catalog :
                             reply[c].body.Headers[Catalog[i].Name]
                                = isHeaderPresent(frame[c].resp.Header, Catalog[i])
        /\ frame[c].err # ""
              => /\ pc[c] = "done"
                 /\ sent[c] = <<frame[c].url>>
                 /\ reply[c].status = 500

\* a 301 whose headers were scored, after one GET
C9_Witness ==
    \E c \in Slots :
        /\ Answered(c)
        /\ frame[c].resp.StatusCode = 301
        /\ Len(sent[c]) = 1
        /\ PresentNames(reply[c].body) = {"Strict-Transport-Security", "Referrer-Policy"}

(* C8 *)

\* C8: https://example.com answering with exactly Strict-Transport-Security,
\* X-Content-Type-Options and Referrer-Policy scores 72, grade B (the README's
\* example response).
C8_ReadmeExample ==
    \A c \in Slots :
        (/\ Answered(c)
         /\ reply[c].body.URL = "https://example.com"
         /\ PresentNames(reply[c].body)
               = {"Strict-Transport-Security", "X-Content-Type-Options", "Referrer-Policy"})
            => (reply[c].body.Score = 72 /\ reply[c].body.Grade = "B")

(* C10 *)

IsHttps(url) == Len(url) >= 8 /\ SubSeq(url, 1, 8) = "https://"

\* C10: of two analyses, the one with the same URL and a superset of the
\* present headers has a score and a grade at least as good; with the same
\* present headers, the https:// one scores at least what the http:// one does.
C10_Monotonic ==
    \A c \in Slots : (Answered(c) /\ last # NoLast) =>
        LET new == reply[c].body
        IN  /\ (new.URL = last.URL /\ PresentNames(last) \subseteq PresentNames(new))
                  => /\ new.Score >= last.Score
                     /\ GradeRank(new.Grade) >= GradeRank(last.Grade)
            /\ (PresentNames(last) = PresentNames(new) /\ IsHttps(new.URL) /\ ~IsHttps(last.URL))
                  => new.Score >= last.Score
            /\ (PresentNames(last) = PresentNames(new) /\ IsHttps(last.URL) /\ ~IsHttps(new.URL))
                  => last.Score >= new.Score

\* a header added between two analyses of the same URL raised score and grade
C10_Witness ==
    \E c \in Slots :
        /\ Answered(c)
        /\ last # NoLast
        /\ reply[c].body.URL = last.URL
        /\ PresentNames(last) = {"Strict-Transport-Security"}
        /\ PresentNames(reply[c].body) = {"Strict-Transport-Security", "Content-Security-Policy"}
        /\ reply[c].body.Score > last.Score
        /\ GradeRank(reply[c].body.Grade) > GradeRank(last.Grade)

=============================================================================
